---- MODULE Spec2Model ----
(***************************************************************************)
(* IsoSpec: joint enumeration drivers over per-element marginal tables.    *)
(*                                                                         *)
(* Log-probabilities are modelled in fixed point (integers, base-2 logs),  *)
(* masses as integers, and a plain probability as 2^(8 + lprob), so        *)
(* that sums and products are exact and comparisons with the cutoff are    *)
(* the comparisons the code performs.                                      *)
(***************************************************************************)
EXTENDS Integers, Sequences, FiniteSets, TLC

(***************************************************************************)
(* Bounds of the model.                                                    *)
(***************************************************************************)
\* largest number of atoms of a molecule, over all its element slots
MaxAtoms == 3
\* advance calls explored once a driver has left its regular walk
MaxLate == 2
\* largest number of element tokens of a formula handed to the parser
MaxTokens == 3

(***************************************************************************)
(* Input data: element kinds, standing for periodic-table entries.         *)
(***************************************************************************)
Kinds == {"X", "Y"}

IsoMasses(kind) == IF kind = "X" THEN <<12, 13>> ELSE <<1, 2, 4>>

\* base-2 logs of the abundances 1/2,1/2 and 1/2,1/4,1/4
IsoLogProbs(kind) == IF kind = "X" THEN <<-1, -1>> ELSE <<-1, -2, -2>>

\* offsets of the log-cutoff from the log-probability of the joint mode
CutoffOffsets == {0, -1, -3}

\* what the memory outside a table may hold: small values or large ones
Junk == { [lp |-> -50, mass |-> 0, ep |-> 0],
          [lp |-> 0, mass |-> 1000, ep |-> 3] }

(***************************************************************************)
(* Numerics.                                                               *)
(***************************************************************************)
RECURSIVE Pow2(_)
Pow2(n) == IF n <= 0 THEN 1 ELSE 2 * Pow2(n - 1)

\* round(log2(n!)) for the small n of the model
LogFactorial(n) ==
    CASE n <= 1 -> 0
      [] n = 2 -> 1
      [] n = 3 -> 3
      [] n = 4 -> 5
      [] OTHER -> 7

minuslogFactorial(n) == 0 - LogFactorial(n)

\* exp in fixed point: a plain probability is 2^(8 + lprob)
ExpOf(lprob) == Pow2(8 + lprob)

RECURSIVE SumTo(_, _)
SumTo(f, n) == IF n = 0 THEN 0 ELSE SumTo(f, n - 1) + f[n]

\* misc.h: two accumulation loops over the isotopes of one element
unnormalized_logProb(conf, logProbs, dim) ==
    SumTo([i \in 1..dim |-> minuslogFactorial(conf[i])], dim)
      + SumTo([i \in 1..dim |-> conf[i] * logProbs[i]], dim)

\* misc.h: mass of one marginal configuration
mass(conf, masses, dim) ==
    SumTo([i \in 1..dim |-> conf[i] * masses[i]], dim)

(***************************************************************************)
(* Marginals.                                                              *)
(***************************************************************************)
\* every isotope-count vector of n atoms over k isotopes
AllConfs(n, k) ==
    {c \in [1..k -> 0..n] : SumTo(c, k) = n}

MarginalLProb(slot, conf) ==
    LogFactorial(slot.n)
      + unnormalized_logProb(conf, IsoLogProbs(slot.kind), Len(IsoLogProbs(slot.kind)))

MarginalMass(slot, conf) ==
    mass(conf, IsoMasses(slot.kind), Len(IsoMasses(slot.kind)))

RECURSIVE LexBefore(_, _, _)
LexBefore(c, d, i) ==
    IF i > Len(c) THEN FALSE
    ELSE IF c[i] # d[i] THEN c[i] > d[i]
    ELSE LexBefore(c, d, i + 1)

\* the order of a marginal table: non-increasing log-probability, ties
\* broken deterministically
ConfBefore(slot, c, d) ==
    \/ MarginalLProb(slot, c) > MarginalLProb(slot, d)
    \/ /\ MarginalLProb(slot, c) = MarginalLProb(slot, d)
       /\ LexBefore(c, d, 1)

RECURSIVE SortConfs(_, _)
SortConfs(slot, S) ==
    IF S = {} THEN <<>>
    ELSE LET first == CHOOSE c \in S : \A d \in S \ {c} : ConfBefore(slot, c, d)
         IN  <<first>> \o SortConfs(slot, S \ {first})

\* a table as the code indexes it: entries 0 .. no_confs-1
TableOf(slot, seq) ==
    [ no_confs |-> Len(seq),
      confs    |-> [i \in 0..(Len(seq) - 1) |-> seq[i + 1]],
      lProbs   |-> [i \in 0..(Len(seq) - 1) |-> MarginalLProb(slot, seq[i + 1])],
      masses   |-> [i \in 0..(Len(seq) - 1) |-> MarginalMass(slot, seq[i + 1])],
      eProbs   |-> [i \in 0..(Len(seq) - 1) |->
                       ExpOf(MarginalLProb(slot, seq[i + 1]))] ]

\* the whole marginal distribution of a slot, sorted
FullMarginal(slot) ==
    TableOf(slot, SortConfs(slot, AllConfs(slot.n, Len(IsoMasses(slot.kind)))))

\* the precomputed marginal: every configuration with lprob >= lCutOff,
\* sorted; entry 0 is the mode whatever the cutoff
PrecalculatedMarginal(slot, lCutOff) ==
    LET all == AllConfs(slot.n, Len(IsoMasses(slot.kind)))
    IN  TableOf(slot,
                SortConfs(slot, {c \in all : \/ MarginalLProb(slot, c) >= lCutOff
                                              \/ c = SortConfs(slot, all)[1]}))

Slots == [kind : Kinds, n : 1..MaxAtoms]

DimOf(m) == Cardinality(DOMAIN m)

RECURSIVE SumFn(_, _)
SumFn(f, hi) == IF hi < 0 THEN 0 ELSE SumFn(f, hi - 1) + f[hi]

\* molecules of at most MaxAtoms atoms; the slots are indexed from 0 like the
\* code's arrays
Molecules ==
    UNION {{m \in [0..(D - 1) -> Slots] :
               SumFn([d \in 0..(D - 1) |-> m[d].n], D - 1) <= MaxAtoms} :
           D \in 1..MaxAtoms}

ModeLProbOf(slot) == FullMarginal(slot).lProbs[0]

\* Iso::modeLProb: the log-probability of the joint mode
JointModeLProb(m) ==
    SumFn([d \in DOMAIN m |-> ModeLProbOf(m[d])], DimOf(m) - 1)

\* the log-probability of the least probable joint configuration
FinalCutoff(m) ==
    SumFn([d \in DOMAIN m |-> FullMarginal(m[d]).lProbs[FullMarginal(m[d]).no_confs - 1]],
          DimOf(m) - 1)

\* the thresholds a threshold generator is constructed with: tau is zero or
\* positive, a positive tau is given by its logarithm
Thresholds ==
    {[tau |-> "positive", log |-> off, absolute |-> FALSE] : off \in CutoffOffsets}

\* tau = 0, and tau = 2^1 relative to the mode's probability: a threshold above 1
BadThresholds ==
    {[tau |-> "zero", log |-> 0, absolute |-> FALSE],
     [tau |-> "positive", log |-> 1, absolute |-> FALSE]}

\* a threshold that is not positive, or a relative one above 1
InvalidThreshold(th) ==
    \/ th.tau = "zero"
    \/ ~th.absolute /\ th.log > 0

\* the constructor accepts every threshold
ConstructionError(th) == "none"

\* Lcutoff as the constructor sets it: log(tau), plus the mode's
\* log-probability for a relative threshold; the logarithm of zero is below
\* every log-probability
ThresholdCutoff(m, th) ==
    IF th.tau = "zero" THEN FinalCutoff(m) - 1
    ELSE IF th.absolute THEN th.log
    ELSE th.log + JointModeLProb(m)

(***************************************************************************)
(* State.                                                                  *)
(***************************************************************************)
VARIABLES
    variant,          \* which generator class was constructed
    mol,              \* Iso: the element slots (isotopeNumbers, atomCounts, tables)
    dimNumber,        \* Iso::dimNumber
    marginalResults,  \* the per-dimension tables
    Lcutoff,          \* IsoThresholdGenerator::Lcutoff
    maxConfsLPSum,    \* IsoThresholdGenerator::maxConfsLPSum
    counter,          \* IsoThresholdGenerator::counter
    partialLProbs,    \* IsoGenerator::partialLProbs
    partialMasses,    \* IsoGenerator::partialMasses
    partialExpProbs,  \* IsoGenerator::partialExpProbs
    lProbs_ptr,       \* IsoThresholdGeneratorFast::lProbs_ptr, as an offset into table 0
    mass_ptr,         \* IsoThresholdGeneratorFast::mass_ptr, as an offset into table 0
    exp_ptr,          \* IsoThresholdGeneratorFast::exp_ptr, as an offset into table 0
    space,            \* the buffer get_conf_signature filled since the last advance, if any
    ret,              \* what the last advanceToNextConfiguration returned
    calls,            \* number of advanceToNextConfiguration calls so far
    emitted,          \* the counter vectors at the calls that returned true
    everFalse,        \* some call has returned false
    termCalled,       \* the client has called terminate_search
    current,          \* the last operation on the driver was an advance that returned true
    late,             \* calls made after the regular walk was left
    carry,            \* the passes of the carry loop made by the last advance call
    pq,               \* IsoOrderedGenerator::pq
    visited,          \* the index tuples admitted to the queue so far
    topConf,          \* IsoOrderedGenerator::topConf
    ccount,           \* IsoOrderedGenerator::ccount
    currentLProb,     \* IsoOrderedGenerator::currentLProb
    currentMass,      \* IsoOrderedGenerator::currentMass
    currentEProb,     \* IsoOrderedGenerator::currentEProb
    tieRule,          \* how the queue orders entries of equal log-probability
    last_layer_lcutoff,     \* IsoLayeredGenerator::last_layer_lcutoff
    current_layer_lcutoff,  \* IsoLayeredGenerator::current_layer_lcutoff
    delta,                  \* IsoLayeredGenerator::delta
    current_sum,            \* IsoLayeredGenerator::current_sum
    pcL,                    \* where the layered advanceToNextConfiguration stands in its loop
    layersThisCall,         \* nextLayer calls made by the advance call running or last run
    returning,              \* the line the last successful layered advance wrote to std::cout
    heap,                   \* the allocations: which are live, released, released twice
    isoObj,                 \* the Iso description the client built: its life, Iso::disowned
    genObj,                 \* the generator object's life
    lifeOrder,              \* the constructions and destructions so far, in order
    threshold,              \* the _threshold, _absolute the generator was constructed with
    ctorError,              \* the error its construction raised
    tokens,                 \* the element tokens the formula was written from, if any
    formula,                \* the text handed to parse_formula, character by character
    parsed,                 \* what parse_formula delivered for it, once called
    next_idx,               \* SyncMarginal: the outer index it hands out next
    workers,                \* the generator of each worker thread, and what it has emitted
    roundMode,              \* the rounding mode of the floating-point environment
    ulp                     \* a call of unnormalized_logProb: its arguments, locals, position

\* the fields of the layered generator and the position of its advance loop
layVars == <<last_layer_lcutoff, current_layer_lcutoff, delta, current_sum, pcL,
             layersThisCall, returning>>

\* the allocations and the lives of the description and of the generator
ownVars == <<heap, isoObj, genObj, lifeOrder>>

\* the parser's input and output
parseVars == <<tokens, formula, parsed>>

\* the shared marginal and the workers of the parallel threshold driver
mtVars == <<next_idx, workers>>

\* the floating-point environment and the call of unnormalized_logProb
roundVars == <<roundMode, ulp>>

\* what the layered generator's calls leave alone
besideLayered == <<ownVars, parseVars, mtVars, roundVars>>

\* what the constructions and destructions leave alone
besideOwn == <<layVars, parseVars, mtVars, roundVars>>

\* the state of the objects other than the threshold or ordered generator
sideVars == <<layVars, ownVars, parseVars, mtVars, roundVars>>

\* what construction fixes, and what the calls on a threshold or an ordered
\* generator leave alone
isoVars == <<variant, mol, dimNumber, marginalResults, Lcutoff, maxConfsLPSum, tieRule,
             threshold, ctorError, sideVars>>

\* the fields of the threshold generators
thrVars == <<counter, partialLProbs, partialMasses, partialExpProbs,
             lProbs_ptr, mass_ptr, exp_ptr>>

\* the fields of the ordered generator
ordVars == <<pq, visited, topConf, ccount, currentLProb, currentMass, currentEProb>>

\* the record of the calls made
histVars == <<ret, calls, emitted, everFalse, current, late, carry>>

vars == <<isoVars, thrVars, ordVars, histVars, space, termCalled>>

(***************************************************************************)
(* Table reads.  A read at an index the table does not hold is a read of   *)
(* memory the table does not own: it delivers the junk value of the call.  *)
(***************************************************************************)
inRange(cx, d, idx) == idx >= 0 /\ idx < cx.marginalResults[d].no_confs

get_lProb(cx, d, idx, junk) ==
    IF inRange(cx, d, idx) THEN cx.marginalResults[d].lProbs[idx] ELSE junk.lp

get_mass(cx, d, idx, junk) ==
    IF inRange(cx, d, idx) THEN cx.marginalResults[d].masses[idx] ELSE junk.mass

get_eProb(cx, d, idx, junk) ==
    IF inRange(cx, d, idx) THEN cx.marginalResults[d].eProbs[idx] ELSE junk.ep

(***************************************************************************)
(* IsoThresholdGenerator                                                   *)
(***************************************************************************)
\* a carry that forgets to increment the counter of the next dimension
CarryStepStay(g, idx) ==
    [g EXCEPT !.counter[idx] = 0]

\* a carry that leaves the counter of the dimension it leaves where it was
CarryStepKeep(g, idx) ==
    [g EXCEPT !.counter[idx + 1] = g.counter[idx + 1] + 1]

\* the head of a pass of the carry loop: the counter of dimension idx is
\* reset and the counter of the next dimension is incremented
CarryStep(g, idx) ==
    [g EXCEPT !.counter[idx] = 0, !.counter[idx + 1] = g.counter[idx + 1] + 1]

\* one pass of the carry loop at dimension j: whether the test was made, the
\* sum it compared with the cutoff, and whether the call returned there
CarryPass(cx, g, j, tested, taken) ==
    [g EXCEPT !.carry = Append(g.carry,
        [ idx    |-> j,
          tested |-> tested,
          sum    |-> IF tested THEN g.partialLProbs[j] + cx.maxConfsLPSum[j - 1] ELSE 0,
          taken  |-> taken ])]

\* recalc with the prefix of the dimension above left out of the sums
RECURSIVE recalcSlip(_, _, _, _)
recalcSlip(cx, g, idx, junk) ==
    IF idx < 0 THEN g
    ELSE recalcSlip(cx,
                    [g EXCEPT
                       !.partialLProbs[idx] = get_lProb(cx, idx, g.counter[idx], junk),
                       !.partialMasses[idx] = get_mass(cx, idx, g.counter[idx], junk),
                       !.partialExpProbs[idx] = get_eProb(cx, idx, g.counter[idx], junk)],
                    idx - 1, junk)

\* recalc(idx): refresh the prefix sums of dimensions idx .. 0
RECURSIVE recalc(_, _, _, _)
recalc(cx, g, idx, junk) ==
    IF idx < 0 THEN g
    ELSE recalc(cx,
                [g EXCEPT
                   !.partialLProbs[idx] =
                       g.partialLProbs[idx + 1] + get_lProb(cx, idx, g.counter[idx], junk),
                   !.partialMasses[idx] =
                       g.partialMasses[idx + 1] + get_mass(cx, idx, g.counter[idx], junk),
                   !.partialExpProbs[idx] =
                       g.partialExpProbs[idx + 1] * get_eProb(cx, idx, g.counter[idx], junk)],
                idx - 1, junk)

\* an array of hi+1 cells, cell i holding f[i]
RECURSIVE NewArray(_, _)
NewArray(f, hi) ==
    IF hi = 0 THEN (0 :> f[0]) ELSE NewArray(f, hi - 1) @@ (hi :> f[hi])

\* terminate_search: put every counter past the end of its table
terminate_search(cx, g) ==
    [g EXCEPT !.counter = NewArray([ii \in 0..(cx.dimNumber - 1) |->
                                       cx.marginalResults[ii].no_confs],
                                   cx.dimNumber - 1)]

\* the smallest and the largest entry of a sequence of masses
RECURSIVE MinOf(_, _)
MinOf(seq, k) ==
    IF k = 1 THEN seq[1]
    ELSE LET r == MinOf(seq, k - 1) IN IF seq[k] < r THEN seq[k] ELSE r

RECURSIVE MaxOf(_, _)
MaxOf(seq, k) ==
    IF k = 1 THEN seq[1]
    ELSE LET r == MaxOf(seq, k - 1) IN IF seq[k] > r THEN seq[k] ELSE r

\* Iso::getLightestPeakMass: every atom of every element its lightest isotope
getLightestPeakMass(m) ==
    SumFn([d \in DOMAIN m |->
              m[d].n * MinOf(IsoMasses(m[d].kind), Len(IsoMasses(m[d].kind)))],
          DimOf(m) - 1)

\* Iso::getHeaviestPeakMass: every atom of every element its heaviest isotope
getHeaviestPeakMass(m) ==
    SumFn([d \in DOMAIN m |->
              m[d].n * MaxOf(IsoMasses(m[d].kind), Len(IsoMasses(m[d].kind)))],
          DimOf(m) - 1)

\* the cutoff handed to the marginal of dimension d
MarginalCutoff(m, d, lcut) ==
    lcut - JointModeLProb(m) + ModeLProbOf(m[d])

\* the constructor's context: tables, cutoff, cumulative mode log-probabilities
Context(m, lcut) ==
    LET D   == DimOf(m)
        tbl == [d \in 0..(D - 1) |-> PrecalculatedMarginal(m[d], MarginalCutoff(m, d, lcut))]
    IN  [ dimNumber       |-> D,
          marginalResults |-> tbl,
          Lcutoff         |-> lcut,
          maxConfsLPSum   |-> [d \in 0..(D - 2) |->
                                 SumFn([e \in 0..(D - 1) |-> tbl[e].lProbs[0]], d)] ]

NoJunk == [lp |-> 0, mass |-> 0, ep |-> 0]

\* IsoThresholdGenerator::IsoThresholdGenerator: counters at 0, prefix sums
\* refreshed from the top dimension down, then counter[0] stepped back so
\* that the first advance lands on entry 0
Construct(cx) ==
    LET D  == cx.dimNumber
        g0 == [ counter         |-> NewArray([d \in 0..(D - 1) |-> 0], D - 1),
                partialLProbs   |-> NewArray([d \in 0..D |-> 0], D),
                partialMasses   |-> NewArray([d \in 0..D |-> 0], D),
                partialExpProbs |-> NewArray([d \in 0..D |-> 1], D),
                lProbs_ptr      |-> 0,
                mass_ptr        |-> 0,
                exp_ptr         |-> 0,
                carry           |-> <<>>,
                ret             |-> FALSE ]
        g1 == recalc(cx, g0, D - 1, NoJunk)
    IN  [g1 EXCEPT !.counter[0] = -1]

\* IsoThresholdGeneratorFast::IsoThresholdGeneratorFast: the three pointers
\* are set to the first entries of the arrays of marginal 0
ConstructFast(cx) ==
    [Construct(cx) EXCEPT !.lProbs_ptr = 0, !.mass_ptr = 0, !.exp_ptr = 0]

\* the carry loop of IsoThresholdGenerator::advanceToNextConfiguration
RECURSIVE BaseCarry(_, _, _)
BaseCarry(cx, g, idx) ==
    IF idx < cx.dimNumber - 1
    THEN LET j  == idx + 1
             g1 == CarryStep(g, idx)
         IN  IF inRange(cx, j, g1.counter[j])
             THEN LET g2 == [g1 EXCEPT !.partialLProbs[j] =
                                g1.partialLProbs[j + 1]
                                  + get_lProb(cx, j, g1.counter[j], NoJunk)]
                  IN  IF g2.partialLProbs[j] + cx.maxConfsLPSum[j - 1] >= cx.Lcutoff
                      THEN LET g3 == [g2 EXCEPT
                                        !.partialMasses[j] = g2.partialMasses[j + 1]
                                            + get_mass(cx, j, g2.counter[j], NoJunk),
                                        !.partialExpProbs[j] = g2.partialExpProbs[j + 1]
                                            * get_eProb(cx, j, g2.counter[j], NoJunk)]
                           IN  [recalc(cx, CarryPass(cx, g3, j, TRUE, TRUE), j - 1, NoJunk)
                                   EXCEPT !.ret = TRUE]
                      ELSE BaseCarry(cx, CarryPass(cx, g2, j, TRUE, FALSE), j)
             ELSE BaseCarry(cx, CarryPass(cx, g1, j, FALSE, FALSE), j)
    ELSE [terminate_search(cx, g) EXCEPT !.ret = FALSE]

\* IsoThresholdGenerator::advanceToNextConfiguration
BaseAdvance(cx, g) ==
    LET g1 == [g EXCEPT !.counter[0] = g.counter[0] + 1, !.carry = <<>>]
    IN  IF inRange(cx, 0, g1.counter[0])
        THEN LET g2 == [g1 EXCEPT !.partialLProbs[0] =
                           g1.partialLProbs[1] + get_lProb(cx, 0, g1.counter[0], NoJunk)]
             IN  IF g2.partialLProbs[0] >= cx.Lcutoff
                 THEN [g2 EXCEPT
                         !.partialMasses[0] = g2.partialMasses[1]
                             + get_mass(cx, 0, g2.counter[0], NoJunk),
                         !.partialExpProbs[0] = g2.partialExpProbs[1]
                             * get_eProb(cx, 0, g2.counter[0], NoJunk),
                         !.ret = TRUE]
                 ELSE BaseCarry(cx, g2, 0)
        ELSE BaseCarry(cx, g1, 0)

(***************************************************************************)
(* IsoThresholdGeneratorFast                                               *)
(***************************************************************************)
\* a sign slip in the carry test: the bound subtracted instead of added
CarryAcceptedSlip(cx, g, j) ==
    g.partialLProbs[j] - cx.maxConfsLPSum[j - 1] >= cx.Lcutoff

\* the carry test: the best completion of the prefix still reaches the cutoff
CarryAccepted(cx, g, j) ==
    g.partialLProbs[j] + cx.maxConfsLPSum[j - 1] >= cx.Lcutoff

\* the carry loop of IsoThresholdGeneratorFast::advanceToNextConfiguration
RECURSIVE FastCarry(_, _, _, _)
FastCarry(cx, g, idx, junk) ==
    IF idx < cx.dimNumber - 1
    THEN LET j  == idx + 1
             g1 == CarryStep(g, idx)
             g2 == [g1 EXCEPT !.partialLProbs[j] =
                       g1.partialLProbs[j + 1] + get_lProb(cx, j, g1.counter[j], junk)]
         IN  IF CarryAccepted(cx, g2, j)
             THEN LET g3 == [g2 EXCEPT
                               !.partialMasses[j] = g2.partialMasses[j + 1]
                                   + get_mass(cx, j, g2.counter[j], junk),
                               !.partialExpProbs[j] = g2.partialExpProbs[j + 1]
                                   * get_eProb(cx, j, g2.counter[j], junk)]
                  IN  [recalc(cx, CarryPass(cx, g3, j, TRUE, TRUE), j - 1, junk)
                          EXCEPT !.ret = TRUE]
             ELSE FastCarry(cx, CarryPass(cx, g2, j, TRUE, FALSE), j, junk)
    ELSE [terminate_search(cx, g) EXCEPT !.ret = FALSE]

\* the read of the mass and probability on the hot path: the pointers have
\* been advanced before they are dereferenced
FastHotRead(cx, g, junk) ==
    [g EXCEPT
       !.partialMasses[0] = g.partialMasses[1] + get_mass(cx, 0, g.mass_ptr, junk),
       !.partialExpProbs[0] = g.partialExpProbs[1] * get_eProb(cx, 0, g.exp_ptr, junk)]

\* IsoThresholdGeneratorFast::advanceToNextConfiguration
FastAdvance(cx, g, junk) ==
    LET g1 == [g EXCEPT
                 !.counter[0] = g.counter[0] + 1,
                 !.partialLProbs[0] =
                     g.partialLProbs[1] + get_lProb(cx, 0, g.lProbs_ptr, junk),
                 !.lProbs_ptr = g.lProbs_ptr + 1,
                 !.mass_ptr = g.mass_ptr + 1,
                 !.exp_ptr = g.exp_ptr + 1,
                 !.carry = <<>>]
    IN  IF g1.partialLProbs[0] >= cx.Lcutoff
        THEN [FastHotRead(cx, g1, junk) EXCEPT !.ret = TRUE]
        ELSE FastCarry(cx,
                       [g1 EXCEPT !.lProbs_ptr = 1, !.mass_ptr = 1, !.exp_ptr = 1],
                       0, junk)

(***************************************************************************)
(* IsoThresholdGeneratorCntr                                               *)
(***************************************************************************)
\* IsoThresholdGeneratorCntr::recalc: log-probabilities only
RECURSIVE CntrRecalc(_, _, _, _)
CntrRecalc(cx, g, idx, junk) ==
    IF idx < 0 THEN g
    ELSE CntrRecalc(cx,
                    [g EXCEPT !.partialLProbs[idx] =
                        g.partialLProbs[idx + 1] + get_lProb(cx, idx, g.counter[idx], junk)],
                    idx - 1, junk)

\* the carry loop of IsoThresholdGeneratorCntr::advanceToNextConfiguration
RECURSIVE CntrCarry(_, _, _, _)
CntrCarry(cx, g, idx, junk) ==
    IF idx < cx.dimNumber - 1
    THEN LET j  == idx + 1
             g1 == CarryStep(g, idx)
             g2 == [g1 EXCEPT !.partialLProbs[j] =
                       g1.partialLProbs[j + 1] + get_lProb(cx, j, g1.counter[j], junk)]
         IN  IF CarryAccepted(cx, g2, j)
             THEN [CntrRecalc(cx, CarryPass(cx, g2, j, TRUE, TRUE), j - 1, junk)
                     EXCEPT !.ret = TRUE]
             ELSE CntrCarry(cx, CarryPass(cx, g2, j, TRUE, FALSE), j, junk)
    ELSE [terminate_search(cx, g) EXCEPT !.ret = FALSE]

\* a count-only advance that keeps the masses and probabilities all the same
CntrAdvanceFull(cx, g, junk) == FastAdvance(cx, g, junk)

\* IsoThresholdGeneratorCntr::advanceToNextConfiguration
CntrAdvance(cx, g, junk) ==
    LET g1 == [g EXCEPT
                 !.counter[0] = g.counter[0] + 1,
                 !.partialLProbs[0] =
                     g.partialLProbs[1] + get_lProb(cx, 0, g.lProbs_ptr, junk),
                 !.lProbs_ptr = g.lProbs_ptr + 1,
                 !.carry = <<>>]
    IN  IF g1.partialLProbs[0] >= cx.Lcutoff
        THEN [g1 EXCEPT !.ret = TRUE]
        ELSE CntrCarry(cx, [g1 EXCEPT !.lProbs_ptr = 1], 0, junk)

(***************************************************************************)
(* get_conf_signature                                                      *)
(***************************************************************************)
RECURSIVE Concat(_, _)
Concat(f, hi) == IF hi < 0 THEN <<>> ELSE Concat(f, hi - 1) \o f[hi]

\* Iso::allDim: the total number of isotopes over the element slots
AllDim(m) == Len(Concat([d \in DOMAIN m |-> IsoMasses(m[d].kind)], DimOf(m) - 1))

\* IsoThresholdGenerator::get_conf_signature: one memcpy per dimension
ThresholdConfSignature(cx, cnt, old) ==
    Concat([ii \in 0..(cx.dimNumber - 1) |-> cx.marginalResults[ii].confs[cnt[ii]]],
           cx.dimNumber - 1)

\* IsoThresholdGeneratorFast::get_conf_signature and
\* IsoThresholdGeneratorCntr::get_conf_signature: the body is empty
FastConfSignature(cx, cnt, old) == old

(***************************************************************************)
(* IsoOrderedGenerator                                                     *)
(***************************************************************************)
\* the loop of combinedSum stopping one dimension early
combinedSumShort(conf, valuesContainer, dim) ==
    SumFn([i \in 0..(dim - 1) |-> valuesContainer[i][conf[i]]], dim - 2)

\* misc.h: the sum of one value per dimension, picked by the index tuple
combinedSum(conf, valuesContainer, dim) ==
    SumFn([i \in 0..(dim - 1) |-> valuesContainer[i][conf[i]]], dim - 1)

\* misc.h: a queue entry holds its log-probability, then its index tuple
getConf(entry) == entry.conf

getLProb(entry) == entry.lprob

\* the tables the ordered marginals deliver, fully materialised
OrderedTables(m) == [d \in 0..(DimOf(m) - 1) |-> FullMarginal(m[d])]

logProbs(tbl) == [d \in DOMAIN tbl |-> tbl[d].lProbs]

masses(tbl) == [d \in DOMAIN tbl |-> tbl[d].masses]

NewEntry(tbl, conf) ==
    [lprob |-> combinedSum(conf, logProbs(tbl), Cardinality(DOMAIN tbl)), conf |-> conf]

RECURSIVE TupleBefore(_, _, _, _)
TupleBefore(c, d, i, dim) ==
    IF i >= dim THEN FALSE
    ELSE IF c[i] # d[i] THEN c[i] < d[i]
    ELSE TupleBefore(c, d, i + 1, dim)

\* a queue that hands out its least probable entry
WorstOf(queue, rule, dim) ==
    CHOOSE e \in queue : \A f \in queue : getLProb(e) <= getLProb(f)

\* pq.top(): an entry of the largest log-probability; among equals the rule decides
TopOf(queue, rule, dim) ==
    CHOOSE e \in queue : \A f \in queue \ {e} :
        \/ getLProb(e) > getLProb(f)
        \/ /\ getLProb(e) = getLProb(f)
           /\ IF rule = "low"
              THEN TupleBefore(getConf(e), getConf(f), 0, dim)
              ELSE TupleBefore(getConf(f), getConf(e), 0, dim)

\* the forward neighbours of an index tuple that the marginals can deliver
ForwardNeighbours(tbl, conf) ==
    {[conf EXCEPT ![j] = conf[j] + 1] :
        j \in {i \in DOMAIN tbl : conf[i] + 1 < tbl[i].no_confs}}

\* admission without the uniqueness check
AdmittedUnchecked(tbl, conf, seen) == ForwardNeighbours(tbl, conf)

\* the neighbours admitted to the queue: those not admitted before
Admitted(tbl, conf, seen) == ForwardNeighbours(tbl, conf) \ seen

\* the lowest dimension whose forward neighbour is admitted, or -1
FirstAdmitted(tbl, conf, seen) ==
    LET js == {j \in DOMAIN tbl : [conf EXCEPT ![j] = conf[j] + 1] \in Admitted(tbl, conf, seen)}
    IN  IF js = {} THEN -1 ELSE CHOOSE j \in js : \A i \in js : j <= i

\* IsoOrderedGenerator::get_conf_signature: entry ccount of the top tuple is
\* stepped back for the copy and forward again afterwards
OrderedConfSignature(tbl, top, cc, old) ==
    LET c0 == getConf(top)
        c  == IF cc >= 0 THEN [c0 EXCEPT ![cc] = c0[cc] - 1] ELSE c0
    IN  Concat([ii \in DOMAIN tbl |-> tbl[ii].confs[c[ii]]], Cardinality(DOMAIN tbl) - 1)

\* a get_conf_signature that leaves entry ccount stepped back
RestoredNot(c, cc) == c

\* the end of IsoOrderedGenerator::get_conf_signature: entry ccount of the
\* index tuple is stepped forward again
Restored(c, cc) == IF cc >= 0 THEN [c EXCEPT ![cc] = c[cc] + 1] ELSE c

\* the top entry as IsoOrderedGenerator::get_conf_signature leaves it
TopAfterSignature(top, cc) ==
    LET c0 == getConf(top)
        c  == IF cc >= 0 THEN [c0 EXCEPT ![cc] = c0[cc] - 1] ELSE c0
    IN  [top EXCEPT !.conf = Restored(c, cc)]

(***************************************************************************)
(* The state machine.                                                      *)
(***************************************************************************)
Variants == {"base", "fast", "cntr"}

TieRules == {"low", "high"}

\* the generator and its context as the operators above take them
Cx == [ dimNumber       |-> dimNumber,
        marginalResults |-> marginalResults,
        Lcutoff         |-> Lcutoff,
        maxConfsLPSum   |-> maxConfsLPSum ]

Gen == [ counter         |-> counter,
         partialLProbs   |-> partialLProbs,
         partialMasses   |-> partialMasses,
         partialExpProbs |-> partialExpProbs,
         lProbs_ptr      |-> lProbs_ptr,
         mass_ptr        |-> mass_ptr,
         exp_ptr         |-> exp_ptr,
         carry           |-> carry,
         ret             |-> ret ]

\* the buffers a caller may hand in: allDim integers of unknown content
StaleBuffers(m) == {[i \in 1..AllDim(m) |-> v] : v \in {-1, 0}}

NoEntry == [lprob |-> 0, conf |-> <<>>]

\* no line has been written to std::cout
NothingWritten == [reads |-> {}, line |-> <<>>]

\* parse_formula has not been called
NotParsed == [error |-> "not called", slots |-> <<>>]

\* the generator takes no threshold
NoThreshold == [tau |-> "positive", log |-> 0, absolute |-> FALSE]

InitHistory ==
    /\ space = <<>>
    /\ ret = FALSE
    /\ calls = 0
    /\ emitted = <<>>
    /\ everFalse = FALSE
    /\ termCalled = FALSE
    /\ current = FALSE
    /\ late = 0
    /\ carry = <<>>

\* a threshold generator of some class, freshly constructed with a threshold
\* of ths
ConstructedWith(ths) ==
    \E v \in Variants, m \in Molecules, th \in ths :
        LET cx == Context(m, ThresholdCutoff(m, th))
            g  == IF v = "base" THEN Construct(cx) ELSE ConstructFast(cx)
        IN  /\ variant = v
            /\ threshold = th
            /\ ctorError = ConstructionError(th)
            /\ mol = m
            /\ dimNumber = cx.dimNumber
            /\ marginalResults = cx.marginalResults
            /\ Lcutoff = cx.Lcutoff
            /\ maxConfsLPSum = cx.maxConfsLPSum
            /\ counter = g.counter
            /\ partialLProbs = g.partialLProbs
            /\ partialMasses = g.partialMasses
            /\ partialExpProbs = g.partialExpProbs
            /\ lProbs_ptr = g.lProbs_ptr
            /\ mass_ptr = g.mass_ptr
            /\ exp_ptr = g.exp_ptr
            /\ pq = {}
            /\ visited = {}
            /\ topConf = NoEntry
            /\ ccount = -1
            /\ currentLProb = 0
            /\ currentMass = 0
            /\ currentEProb = 0
            /\ tieRule = "low"
            /\ InitHistory

InitThreshold == ConstructedWith(Thresholds)

\* an ordered generator, freshly constructed: the joint mode is queued
InitOrdered ==
    \E m \in Molecules, rule \in TieRules :
        LET tbl  == OrderedTables(m)
            mode == [d \in 0..(DimOf(m) - 1) |-> 0]
        IN  /\ variant = "ordered"
            /\ threshold = NoThreshold
            /\ ctorError = "none"
            /\ mol = m
            /\ dimNumber = DimOf(m)
            /\ marginalResults = tbl
            /\ Lcutoff = 0
            /\ maxConfsLPSum = <<>>
            /\ counter = mode
            /\ partialLProbs = [d \in 0..DimOf(m) |-> 0]
            /\ partialMasses = [d \in 0..DimOf(m) |-> 0]
            /\ partialExpProbs = [d \in 0..DimOf(m) |-> 1]
            /\ lProbs_ptr = 0
            /\ mass_ptr = 0
            /\ exp_ptr = 0
            /\ pq = {NewEntry(tbl, mode)}
            /\ visited = {mode}
            /\ topConf = NoEntry
            /\ ccount = -1
            /\ currentLProb = 0
            /\ currentMass = 0
            /\ currentEProb = 0
            /\ tieRule = rule
            /\ InitHistory

\* no layered generator has been constructed
IdleLayered ==
    /\ last_layer_lcutoff = 0
    /\ current_layer_lcutoff = 0
    /\ delta = 0
    /\ current_sum = 0
    /\ pcL = "idle"
    /\ layersThisCall = 0
    /\ returning = NothingWritten

\* parse_formula is not followed
IdleParse ==
    /\ tokens = <<>>
    /\ formula = <<>>
    /\ parsed = NotParsed

\* no worker threads run, no call of unnormalized_logProb is followed
IdleMT ==
    /\ next_idx = 0
    /\ workers = <<>>
    /\ roundMode = "FE_TONEAREST"
    /\ ulp = [pc |-> "none"]

\* the lives of the objects are not followed
IdleOwn ==
    /\ heap = <<>>
    /\ isoObj = [life |-> "alive", disowned |-> TRUE]
    /\ genObj = [life |-> "alive"]
    /\ lifeOrder = <<>>

Init == (InitThreshold \/ InitOrdered) /\ IdleLayered /\ IdleOwn /\ IdleParse /\ IdleMT

\* the driver is past its regular walk: exhausted, terminated, or standing on
\* an index outside a table, now or earlier
Off ==
    \/ late > 0
    \/ everFalse
    \/ termCalled
    \/ /\ variant \in Variants
       /\ ret
       /\ \E d \in 0..(dimNumber - 1) : ~inRange(Cx, d, counter[d])

\* the record of one advanceToNextConfiguration call that returned r, the
\* driver then standing on the index tuple idx, after the carry passes c
Recorded(r, idx, c) ==
    /\ Off => late < MaxLate
    /\ ret' = r
    /\ calls' = calls + 1
    /\ emitted' = IF r THEN Append(emitted, idx) ELSE emitted
    /\ everFalse' = (everFalse \/ ~r)
    /\ current' = r
    /\ late' = IF Off THEN late + 1 ELSE late
    /\ carry' = c
    /\ space' = <<>>

\* one advanceToNextConfiguration call of a threshold generator that ended in g
Advanced(g) ==
    /\ Recorded(g.ret, g.counter, g.carry)
    /\ counter' = g.counter
    /\ partialLProbs' = g.partialLProbs
    /\ partialMasses' = g.partialMasses
    /\ partialExpProbs' = g.partialExpProbs
    /\ lProbs_ptr' = g.lProbs_ptr
    /\ mass_ptr' = g.mass_ptr
    /\ exp_ptr' = g.exp_ptr
    /\ UNCHANGED <<isoVars, ordVars, termCalled>>

AdvanceBase ==
    /\ variant = "base"
    /\ Advanced(BaseAdvance(Cx, Gen))

AdvanceFast ==
    /\ variant = "fast"
    /\ \E junk \in Junk : Advanced(FastAdvance(Cx, Gen, junk))

AdvanceCntr ==
    /\ variant = "cntr"
    /\ \E junk \in Junk : Advanced(CntrAdvance(Cx, Gen, junk))

\* IsoOrderedGenerator::advanceToNextConfiguration on an empty queue
AdvanceOrderedEmpty ==
    /\ variant = "ordered"
    /\ pq = {}
    /\ Recorded(FALSE, <<>>, <<>>)
    /\ UNCHANGED <<isoVars, thrVars, ordVars, termCalled>>

\* IsoOrderedGenerator::advanceToNextConfiguration: pop the top entry, make it
\* the current configuration, queue its admitted forward neighbours; the
\* popped entry's storage is reused for the first of them
AdvanceOrdered ==
    /\ variant = "ordered"
    /\ pq # {}
    /\ LET top  == TopOf(pq, tieRule, dimNumber)
           conf == getConf(top)
           new  == Admitted(marginalResults, conf, visited)
           cc   == FirstAdmitted(marginalResults, conf, visited)
       IN  /\ Recorded(TRUE, conf, <<>>)
           /\ currentLProb' = getLProb(top)
           /\ currentMass' = combinedSum(conf, masses(marginalResults), dimNumber)
           /\ currentEProb' = ExpOf(getLProb(top))
           /\ pq' = (pq \ {top}) \cup {NewEntry(marginalResults, c) : c \in new}
           /\ visited' = visited \cup new
           /\ ccount' = cc
           /\ topConf' = IF cc >= 0
                         THEN NewEntry(marginalResults, [conf EXCEPT ![cc] = conf[cc] + 1])
                         ELSE top
    /\ UNCHANGED <<isoVars, thrVars, termCalled>>

\* the client calls terminate_search
TerminateSearch ==
    /\ variant \in {"base", "fast", "cntr"}
    /\ ~termCalled
    /\ counter' = terminate_search(Cx, Gen).counter
    /\ termCalled' = TRUE
    /\ current' = FALSE
    /\ UNCHANGED <<isoVars, ordVars, partialLProbs, partialMasses, partialExpProbs,
                   lProbs_ptr, mass_ptr, exp_ptr, space, ret, calls, emitted,
                   everFalse, late, carry>>

\* the client reads the signature of the configuration just emitted; the
\* ordered generator works on the index tuple of its top entry in place, and
\* that entry is the one the queue holds when its storage was reused
GetConfSignature ==
    /\ variant \in {"base", "fast", "ordered"}
    /\ current
    /\ \E old \in StaleBuffers(mol) :
          space' = CASE variant = "base" -> ThresholdConfSignature(Cx, counter, old)
                     [] variant = "fast" -> FastConfSignature(Cx, counter, old)
                     [] OTHER -> OrderedConfSignature(marginalResults, topConf, ccount, old)
    /\ topConf' = IF variant = "ordered" THEN TopAfterSignature(topConf, ccount) ELSE topConf
    /\ pq' = IF variant = "ordered" /\ topConf \in pq
             THEN (pq \ {topConf}) \cup {TopAfterSignature(topConf, ccount)}
             ELSE pq
    /\ UNCHANGED <<isoVars, thrVars, visited, ccount, currentLProb, currentMass,
                   currentEProb, histVars, termCalled>>

Next ==
    \/ AdvanceBase
    \/ AdvanceFast
    \/ AdvanceCntr
    \/ AdvanceOrdered
    \/ AdvanceOrderedEmpty
    \/ TerminateSearch
    \/ GetConfSignature

Spec == Init /\ [][Next]_vars

\* the threshold generators constructed with a threshold of BadThresholds
InitBadThreshold ==
    ConstructedWith(BadThresholds) /\ IdleLayered /\ IdleOwn /\ IdleParse /\ IdleMT

NextThreshold ==
    \/ AdvanceBase
    \/ AdvanceFast
    \/ AdvanceCntr

SpecBadThreshold == InitBadThreshold /\ [][NextThreshold]_vars

(***************************************************************************)
(* IsoLayeredGenerator                                                     *)
(***************************************************************************)
\* the layer steps a generator may be constructed with (negative, as nextLayer asks)
Deltas == {-1, -2}

\* advanceToNextConfiguration_internal: the threshold sweep at the current
\* layer's cutoff, passing over what the layers before have delivered
RECURSIVE advanceToNextConfiguration_internal(_, _, _)
advanceToNextConfiguration_internal(cx, g, last) ==
    LET h == BaseAdvance(cx, g)
    IN  IF h.ret /\ h.partialLProbs[0] >= last
        THEN advanceToNextConfiguration_internal(cx, h, last)
        ELSE h

\* nextLayer reports whether a further layer exists
LayerLeftAlways(m, cur) == TRUE

LayerLeft(m, cur) == cur > FinalCutoff(m)

\* the cutoff of the next layer
LoweredStuck(cur, logCutoff_delta) == cur

Lowered(cur, logCutoff_delta) == cur + logCutoff_delta

\* the layered generator's context at the cutoff cur
LayeredCx(m, cur) == Context(m, cur)

\* a layered generator, freshly constructed: the first layer holds the joint
\* modes, no layer came before it
InitLayered ==
    \E m \in Molecules, dl \in Deltas :
        LET cur == JointModeLProb(m)
            cx  == LayeredCx(m, cur)
            g   == Construct(cx)
        IN  /\ variant = "layered"
            /\ threshold = NoThreshold
            /\ ctorError = "none"
            /\ mol = m
            /\ dimNumber = cx.dimNumber
            /\ marginalResults = cx.marginalResults
            /\ Lcutoff = cur
            /\ maxConfsLPSum = cx.maxConfsLPSum
            /\ counter = g.counter
            /\ partialLProbs = g.partialLProbs
            /\ partialMasses = g.partialMasses
            /\ partialExpProbs = g.partialExpProbs
            /\ lProbs_ptr = 0
            /\ mass_ptr = 0
            /\ exp_ptr = 0
            /\ pq = {}
            /\ visited = {}
            /\ topConf = NoEntry
            /\ ccount = -1
            /\ currentLProb = 0
            /\ currentMass = 0
            /\ currentEProb = 0
            /\ tieRule = "low"
            /\ last_layer_lcutoff = cur + 1
            /\ current_layer_lcutoff = cur
            /\ delta = dl
            /\ current_sum = 0
            /\ pcL = "idle"
            /\ layersThisCall = 0
            /\ returning = NothingWritten
            /\ IdleOwn
            /\ IdleParse
            /\ IdleMT
            /\ InitHistory

\* the entries of counter the "Returning conf" line reads
ReturningConfReads == {0, 1}

\* counter[d] as a read delivers it: outside the array, what lies behind it
counterAt(cnt, D, d, junk) == IF d >= 0 /\ d < D THEN cnt[d] ELSE junk.lp

\* std::cout << "Returning conf: " << counter[0] << " " << counter[1] << " "
\*           << partialLProbs[0]
ReturningConf(h, D, junk) ==
    [ reads |-> ReturningConfReads,
      line  |-> <<counterAt(h.counter, D, 0, junk), counterAt(h.counter, D, 1, junk),
                  h.partialLProbs[0]>> ]

\* the fields a sweep writes
Swept(h) ==
    /\ counter' = h.counter
    /\ partialLProbs' = h.partialLProbs
    /\ partialMasses' = h.partialMasses
    /\ partialExpProbs' = h.partialExpProbs

\* advanceToNextConfiguration is entered, or its loop comes round again
InLoop == pcL = "sweep" \/ (pcL = "idle" /\ (Off => late < MaxLate))

\* the sweep finds a configuration of the current slab: return true
LayeredEmit ==
    /\ variant = "layered"
    /\ InLoop
    /\ LET h == advanceToNextConfiguration_internal(Cx, Gen, last_layer_lcutoff)
       IN  /\ h.ret
           /\ Swept(h)
           /\ Recorded(TRUE, h.counter, <<>>)
           /\ current_sum' = current_sum + h.partialExpProbs[0]
           /\ \E junk \in Junk : returning' = ReturningConf(h, dimNumber, junk)
    /\ pcL' = "idle"
    /\ layersThisCall' = IF pcL = "idle" THEN 0 ELSE layersThisCall
    /\ UNCHANGED <<variant, mol, dimNumber, marginalResults, Lcutoff, maxConfsLPSum,
                   tieRule, threshold, ctorError, lProbs_ptr, mass_ptr, exp_ptr, ordVars, termCalled, besideLayered,
                   last_layer_lcutoff, current_layer_lcutoff, delta>>

\* the sweep finds the current slab exhausted
LayeredSlabDone ==
    /\ variant = "layered"
    /\ InLoop
    /\ LET h == advanceToNextConfiguration_internal(Cx, Gen, last_layer_lcutoff)
       IN  /\ ~h.ret
           /\ Swept(h)
    /\ pcL' = "grow"
    /\ layersThisCall' = IF pcL = "idle" THEN 0 ELSE layersThisCall
    /\ UNCHANGED <<variant, mol, dimNumber, marginalResults, Lcutoff, maxConfsLPSum,
                   tieRule, threshold, ctorError, lProbs_ptr, mass_ptr, exp_ptr, ordVars, termCalled, besideLayered,
                   last_layer_lcutoff, current_layer_lcutoff, delta, current_sum,
                   returning, histVars, space>>

\* nextLayer(delta) grows a layer: the cutoff is lowered, the marginals are
\* extended to it and the sweep starts again
LayeredGrow ==
    /\ variant = "layered"
    /\ pcL = "grow"
    /\ LayerLeft(mol, current_layer_lcutoff)
    /\ LET cur == Lowered(current_layer_lcutoff, delta)
           cx  == LayeredCx(mol, cur)
       IN  /\ last_layer_lcutoff' = current_layer_lcutoff
           /\ current_layer_lcutoff' = cur
           /\ Lcutoff' = cur
           /\ marginalResults' = cx.marginalResults
           /\ Swept(Construct(cx))
    /\ pcL' = "sweep"
    /\ layersThisCall' = layersThisCall + 1
    /\ UNCHANGED <<variant, mol, dimNumber, maxConfsLPSum, tieRule, threshold, ctorError,
                   lProbs_ptr, mass_ptr,
                   exp_ptr, ordVars, termCalled, besideLayered, delta, current_sum, returning,
                   histVars, space>>

\* nextLayer(delta) has no layer left: return false
LayeredNoLayer ==
    /\ variant = "layered"
    /\ pcL = "grow"
    /\ ~LayerLeft(mol, current_layer_lcutoff)
    /\ Recorded(FALSE, counter, <<>>)
    /\ pcL' = "idle"
    /\ UNCHANGED <<variant, mol, dimNumber, marginalResults, Lcutoff, maxConfsLPSum,
                   tieRule, threshold, ctorError, thrVars, ordVars, termCalled, besideLayered, last_layer_lcutoff,
                   current_layer_lcutoff, delta, current_sum, layersThisCall, returning>>

NextLayered ==
    \/ LayeredEmit
    \/ LayeredSlabDone
    \/ LayeredGrow
    \/ LayeredNoLayer

SpecLayered == InitLayered /\ [][NextLayered]_vars

(***************************************************************************)
(* Ownership: the description, the generator built from it, and what each  *)
(* destructor releases.                                                    *)
(***************************************************************************)
\* what Iso's constructor allocates: the element-slot arrays and the marginals
IsoOwned(D) ==
    {<<"isotopeNumbers", -1>>, <<"atomCounts", -1>>, <<"marginals", -1>>}
      \cup {<<"marginals", d>> : d \in 0..(D - 1)}

\* what the generator's constructors allocate on top of it
GeneratorOwned(D) ==
    {<<"partialLProbs", -1>>, <<"partialMasses", -1>>, <<"partialExpProbs", -1>>,
     <<"counter", -1>>, <<"maxConfsLPSum", -1>>, <<"marginalResults", -1>>}
      \cup {<<"marginalResults", d>> : d \in 0..(D - 1)}

\* what an advance or a query of the generator reads or writes
GeneratorUses(D) ==
    GeneratorOwned(D) \cup {<<"isotopeNumbers", -1>>, <<"atomCounts", -1>>}

\* delete on every allocation in rs
Released(h, rs) ==
    [r \in DOMAIN h |->
        IF r \in rs
        THEN (IF h[r] = "live" THEN "released" ELSE "released twice")
        ELSE h[r]]

\* dealloc_table that releases the table and forgets its entries
dealloc_tableShallow(tbl, dim) == {<<tbl, -1>>}

\* misc.h dealloc_table: delete every entry, then delete[] the table
dealloc_table(tbl, dim) ==
    {<<tbl, i>> : i \in 0..(dim - 1)} \cup {<<tbl, -1>>}

\* ~Iso that does not look at disowned
IsoDestructorAlways(D, disowned) ==
    dealloc_table("marginals", D)
      \cup {<<"isotopeNumbers", -1>>, <<"atomCounts", -1>>}

\* Iso::~Iso: a disowned description releases nothing
IsoDestructor(D, disowned) ==
    IF disowned THEN {}
    ELSE dealloc_table("marginals", D)
           \cup {<<"isotopeNumbers", -1>>, <<"atomCounts", -1>>}

\* IsoThresholdGenerator::~IsoThresholdGenerator
ThresholdDestructor(D) ==
    {<<"counter", -1>>, <<"maxConfsLPSum", -1>>} \cup dealloc_table("marginalResults", D)

\* IsoGenerator::~IsoGenerator
GeneratorDestructor(D) ==
    {<<"partialLProbs", -1>>, <<"partialMasses", -1>>, <<"partialExpProbs", -1>>}

\* new Iso(formula): the description is built, no generator yet; the
\* generator's fields hold what its constructor is going to compute
InitOwn ==
    /\ InitThreshold
    /\ variant = "base"
    /\ IdleLayered
    /\ IdleParse
    /\ IdleMT
    /\ heap = [r \in IsoOwned(dimNumber) \cup GeneratorOwned(dimNumber) |->
                  IF r \in IsoOwned(dimNumber) THEN "live" ELSE "none"]
    /\ isoObj = [life |-> "alive", disowned |-> FALSE]
    /\ genObj = [life |-> "none"]
    /\ lifeOrder = <<>>

OwnFrame ==
    UNCHANGED <<variant, mol, dimNumber, marginalResults, Lcutoff, maxConfsLPSum, tieRule,
                threshold, ctorError, besideOwn, thrVars, ordVars, histVars, space, termCalled>>

\* new IsoThresholdGenerator(std::move(*iso), ...): the description's arrays
\* and marginals pass to the generator, the description is marked disowned
MoveConstruct ==
    /\ isoObj.life = "alive"
    /\ ~isoObj.disowned
    /\ genObj.life = "none"
    /\ isoObj' = [isoObj EXCEPT !.disowned = TRUE]
    /\ genObj' = [life |-> "alive"]
    /\ heap' = [r \in DOMAIN heap |->
                   IF r \in GeneratorOwned(dimNumber) THEN "live" ELSE heap[r]]
    /\ lifeOrder' = Append(lifeOrder, "construct")
    /\ OwnFrame

\* delete iso
DeleteIso ==
    /\ isoObj.life = "alive"
    /\ isoObj' = [isoObj EXCEPT !.life = "deleted"]
    /\ heap' = Released(heap, IsoDestructor(dimNumber, isoObj.disowned))
    /\ lifeOrder' = Append(lifeOrder, "delete iso")
    /\ UNCHANGED genObj
    /\ OwnFrame

\* delete generator: the destructors run from the derived class to Iso
DeleteGenerator ==
    /\ genObj.life = "alive"
    /\ genObj' = [life |-> "deleted"]
    /\ heap' = Released(Released(Released(heap, ThresholdDestructor(dimNumber)),
                                  GeneratorDestructor(dimNumber)),
                         IsoDestructor(dimNumber, FALSE))
    /\ lifeOrder' = Append(lifeOrder, "delete generator")
    /\ UNCHANGED isoObj
    /\ OwnFrame

\* the client advances the generator it holds
OwnAdvance ==
    /\ genObj.life = "alive"
    /\ AdvanceBase

NextOwn ==
    \/ MoveConstruct
    \/ DeleteIso
    \/ DeleteGenerator
    \/ OwnAdvance

SpecOwn == InitOwn /\ [][NextOwn]_vars

(***************************************************************************)
(* parse_formula                                                           *)
(***************************************************************************)
Uppercase == {"C", "H", "X"}

Lowercase == {"l", "z"}

Digits == <<"0", "1", "2", "3", "4", "5", "6", "7", "8", "9">>

IsDigit(ch) == \E v \in 1..10 : Digits[v] = ch

DigitValue(ch) == (CHOOSE v \in 1..10 : Digits[v] = ch) - 1

\* the symbols of the built-in periodic table
PeriodicTable == {<<"C">>, <<"H">>, <<"C", "l">>}

\* the element tokens the formulas are written from: a symbol, known to the
\* table or not, and the digits written for a count
Tokens ==
    [sym : PeriodicTable \cup {<<"X", "z">>}, written : {[digits |-> <<>>, count |-> 1]}]
      \cup [sym : PeriodicTable,
            written : {[digits |-> <<"2">>, count |-> 2], [digits |-> <<"1", "0">>, count |-> 10]}]

TokenLists == UNION {[1..k -> Tokens] : k \in 1..MaxTokens}

\* the text of a list of tokens
RECURSIVE Text(_, _)
Text(tl, k) ==
    IF k = 0 THEN <<>> ELSE Text(tl, k - 1) \o tl[k].sym \o tl[k].written.digits

\* texts outside the grammar: a lowercase letter or a digit where an element
\* has to start
MalformedTexts == {<<"l", "2">>, <<"2", "C">>, <<"C", "l", "l">>, <<>>}

\* the index behind the run of digits that starts at i
RECURSIVE DigitsEnd(_, _)
DigitsEnd(f, i) == IF i <= Len(f) /\ IsDigit(f[i]) THEN DigitsEnd(f, i + 1) ELSE i

\* the decimal number written at f[i] .. f[j-1]
RECURSIVE NumberOf(_, _, _)
NumberOf(f, i, j) ==
    IF j <= i THEN 0 ELSE NumberOf(f, i, j - 1) * 10 + DigitValue(f[j - 1])

\* an element met again takes the place of its earlier occurrence
AddCountLast(slots, sym, n) ==
    IF \E k \in 1..Len(slots) : slots[k].sym = sym
    THEN [k \in 1..Len(slots) |->
            IF slots[k].sym = sym THEN [sym |-> sym, n |-> n] ELSE slots[k]]
    ELSE Append(slots, [sym |-> sym, n |-> n])

\* duplicate elements are summed, a new element takes the next slot
AddCount(slots, sym, n) ==
    IF \E k \in 1..Len(slots) : slots[k].sym = sym
    THEN [k \in 1..Len(slots) |->
            IF slots[k].sym = sym THEN [sym |-> sym, n |-> slots[k].n + n] ELSE slots[k]]
    ELSE Append(slots, [sym |-> sym, n |-> n])

\* the scan of (Element digit*)+ from position i on
RECURSIVE Scan(_, _, _)
Scan(f, i, slots) ==
    IF i > Len(f) THEN [error |-> "none", slots |-> slots]
    ELSE IF f[i] \notin Uppercase THEN [error |-> "MalformedFormula", slots |-> <<>>]
    ELSE LET e   == IF i < Len(f) /\ f[i + 1] \in Lowercase THEN i + 1 ELSE i
             sym == SubSeq(f, i, e)
             d   == DigitsEnd(f, e + 1)
             n   == IF d = e + 1 THEN 1 ELSE NumberOf(f, e + 1, d)
         IN  IF sym \notin PeriodicTable
             THEN [error |-> "UnknownElement", slots |-> <<>>]
             ELSE Scan(f, d, AddCount(slots, sym, n))

\* parse_formula: the element slots with their atom counts, or the error
parse_formula(f) ==
    IF f = <<>> THEN [error |-> "MalformedFormula", slots |-> <<>>] ELSE Scan(f, 1, <<>>)

\* no generator is constructed
IdleGenerator ==
    /\ variant = "none"
    /\ threshold = NoThreshold
    /\ ctorError = "none"
    /\ mol = <<>>
    /\ dimNumber = 0
    /\ marginalResults = <<>>
    /\ Lcutoff = 0
    /\ maxConfsLPSum = <<>>
    /\ counter = <<>>
    /\ partialLProbs = <<>>
    /\ partialMasses = <<>>
    /\ partialExpProbs = <<>>
    /\ lProbs_ptr = 0
    /\ mass_ptr = 0
    /\ exp_ptr = 0
    /\ pq = {}
    /\ visited = {}
    /\ topConf = NoEntry
    /\ ccount = -1
    /\ currentLProb = 0
    /\ currentMass = 0
    /\ currentEProb = 0
    /\ tieRule = "low"
    /\ InitHistory

\* a formula text is at hand, written from a list of tokens or malformed
InitParse ==
    /\ \/ \E tl \in TokenLists :
             /\ tokens = tl
             /\ formula = Text(tl, Len(tl))
       \/ /\ tokens = <<>>
          /\ formula \in MalformedTexts
    /\ parsed = NotParsed
    /\ IdleGenerator
    /\ IdleLayered
    /\ IdleOwn
    /\ IdleMT

\* the client calls parse_formula on the text
ParseFormula ==
    /\ parsed = NotParsed
    /\ parsed' = parse_formula(formula)
    /\ UNCHANGED <<tokens, formula, variant, mol, dimNumber, marginalResults, Lcutoff,
                   maxConfsLPSum, tieRule, threshold, ctorError, layVars, ownVars,
                   mtVars, roundVars, thrVars, ordVars, histVars, space, termCalled>>

NextParse == ParseFormula

SpecParse == InitParse /\ [][NextParse]_vars

(***************************************************************************)
(* IsoThresholdGeneratorMT: one generator per worker thread, all sharing   *)
(* the synchronized marginal of the outermost dimension.                   *)
(***************************************************************************)
Workers == {1, 2}

\* a dispenser that hands out the same index again
getNextConfIdxStuck(nxt) == nxt

\* SyncMarginal: the index handed out after nxt
getNextConfIdx(nxt) == nxt + 1

\* the walk over the inner dimensions: the single-threaded walk with the
\* outermost dimension left out
InnerCx(cx) == [cx EXCEPT !.dimNumber = cx.dimNumber - 1]

\* a worker's generator with the outer index o assigned: inner counters at
\* their start, prefix sums refreshed from the outermost dimension down
Assigned(cx, o) ==
    LET D  == cx.dimNumber
        g0 == [Construct(cx) EXCEPT !.counter[0] = 0, !.counter[D - 1] = o]
        g1 == recalc(cx, g0, D - 1, NoJunk)
    IN  IF D = 1 THEN g1 ELSE [g1 EXCEPT !.counter[0] = -1]

\* a worker thread that has not called advanceToNextConfiguration yet
NewWorker(cx) ==
    [ pc      |-> "fetch",
      gen     |-> Construct(cx),
      got     |-> <<>>,
      emitted |-> <<>>,
      ret     |-> FALSE,
      calls   |-> 0 ]

\* the parallel threshold driver, freshly constructed over shared tables
InitMT ==
    /\ \E m \in Molecules, th \in Thresholds :
          LET cx == Context(m, ThresholdCutoff(m, th))
          IN  /\ variant = "mt"
              /\ threshold = th
              /\ ctorError = ConstructionError(th)
              /\ mol = m
              /\ dimNumber = cx.dimNumber
              /\ marginalResults = cx.marginalResults
              /\ Lcutoff = cx.Lcutoff
              /\ maxConfsLPSum = cx.maxConfsLPSum
              /\ workers = [w \in Workers |-> NewWorker(cx)]
    /\ next_idx = 0
    /\ counter = <<>>
    /\ partialLProbs = <<>>
    /\ partialMasses = <<>>
    /\ partialExpProbs = <<>>
    /\ lProbs_ptr = 0
    /\ mass_ptr = 0
    /\ exp_ptr = 0
    /\ pq = {}
    /\ visited = {}
    /\ topConf = NoEntry
    /\ ccount = -1
    /\ currentLProb = 0
    /\ currentMass = 0
    /\ currentEProb = 0
    /\ tieRule = "low"
    /\ InitHistory
    /\ IdleLayered
    /\ IdleOwn
    /\ IdleParse
    /\ roundMode = "FE_TONEAREST"
    /\ ulp = [pc |-> "none"]

MTFrame ==
    UNCHANGED <<variant, mol, dimNumber, marginalResults, Lcutoff, maxConfsLPSum, tieRule,
                threshold, ctorError, layVars, ownVars, parseVars, roundVars, thrVars,
                ordVars, histVars, space, termCalled>>

\* worker w asks the shared marginal for an outer index and is handed one
\* inside the table: with one dimension that is a configuration to emit,
\* with more the inner walk starts under it
MTFetch(w) ==
    /\ variant = "mt"
    /\ workers[w].pc = "fetch"
    /\ inRange(Cx, dimNumber - 1, next_idx)
    /\ next_idx' = getNextConfIdx(next_idx)
    /\ LET g == Assigned(Cx, next_idx)
           r == dimNumber = 1
       IN  workers' = [workers EXCEPT ![w] =
              [ pc      |-> IF r THEN "fetch" ELSE "walk",
                gen     |-> g,
                got     |-> Append(workers[w].got, next_idx),
                emitted |-> IF r THEN Append(workers[w].emitted, g.counter)
                            ELSE workers[w].emitted,
                ret     |-> r,
                calls   |-> IF r THEN workers[w].calls + 1 ELSE workers[w].calls ]]
    /\ MTFrame

\* worker w asks for an outer index and the table is used up: its
\* advanceToNextConfiguration returns false
MTFetchNone(w) ==
    /\ variant = "mt"
    /\ workers[w].pc = "fetch"
    /\ ~inRange(Cx, dimNumber - 1, next_idx)
    /\ next_idx' = getNextConfIdx(next_idx)
    /\ workers' = [workers EXCEPT ![w].pc = "done", ![w].ret = FALSE,
                                   ![w].calls = workers[w].calls + 1]
    /\ MTFrame

\* worker w walks the inner dimensions under its outer index: it returns
\* true on the next configuration, or finds them used up and goes to fetch
MTWalk(w) ==
    /\ variant = "mt"
    /\ workers[w].pc = "walk"
    /\ LET h == BaseAdvance(InnerCx(Cx), workers[w].gen)
       IN  workers' = [workers EXCEPT ![w] =
              [ pc      |-> IF h.ret THEN "walk" ELSE "fetch",
                gen     |-> h,
                got     |-> workers[w].got,
                emitted |-> IF h.ret THEN Append(workers[w].emitted, h.counter)
                            ELSE workers[w].emitted,
                ret     |-> h.ret,
                calls   |-> IF h.ret THEN workers[w].calls + 1 ELSE workers[w].calls ]]
    /\ UNCHANGED next_idx
    /\ MTFrame

NextMT == \E w \in Workers : MTFetch(w) \/ MTFetchNone(w) \/ MTWalk(w)

SpecMT == InitMT /\ [][NextMT]_vars

(***************************************************************************)
(* unnormalized_logProb, statement by statement, in the floating-point     *)
(* environment of the calling thread.                                      *)
(***************************************************************************)
RoundingModes == {"FE_TONEAREST", "FE_TOWARDZERO", "FE_UPWARD", "FE_DOWNWARD"}

\* an fegetround that reports the default mode whatever is in force
fegetroundDefault(mode) == "FE_TONEAREST"

\* fegetround: the mode in force
fegetround(mode) == mode

\* fesetround: the mode in force afterwards
fesetround(mode, round) == IF round \in RoundingModes THEN round ELSE mode

\* the marginal configurations unnormalized_logProb is called on
LogProbCalls ==
    UNION {{[conf |-> c, logProbs |-> IsoLogProbs(sl.kind), dim |-> Len(IsoLogProbs(sl.kind))] :
               c \in AllConfs(sl.n, Len(IsoMasses(sl.kind)))} : sl \in Slots}

\* the call is about to be made, in some rounding mode
InitRound ==
    /\ roundMode \in RoundingModes
    /\ \E a \in LogProbCalls :
          ulp = [ pc |-> "call", conf |-> a.conf, logProbs |-> a.logProbs, dim |-> a.dim,
                  entry |-> roundMode, curr_method |-> "unset", res |-> 0, i |-> 0,
                  passes |-> <<>> ]
    /\ IdleGenerator
    /\ IdleLayered
    /\ IdleOwn
    /\ IdleParse
    /\ next_idx = 0
    /\ workers = <<>>

RoundFrame ==
    UNCHANGED <<variant, mol, dimNumber, marginalResults, Lcutoff, maxConfsLPSum, tieRule,
                threshold, ctorError, layVars, ownVars, parseVars, mtVars, thrVars,
                ordVars, histVars, space, termCalled>>

\* res = 0.0; curr_method = fegetround(); fesetround(FE_TOWARDZERO)
ULPEnter ==
    /\ ulp.pc = "call"
    /\ ulp' = [ulp EXCEPT !.pc = "factorials", !.curr_method = fegetround(roundMode),
                           !.res = 0, !.i = 0]
    /\ roundMode' = fesetround(roundMode, "FE_TOWARDZERO")
    /\ RoundFrame

\* res += minuslogFactorial(conf[i]), in the mode in force
ULPFactorial ==
    /\ ulp.pc = "factorials"
    /\ ulp.i < ulp.dim
    /\ ulp' = [ulp EXCEPT !.res = ulp.res + minuslogFactorial(ulp.conf[ulp.i + 1]),
                           !.i = ulp.i + 1,
                           !.passes = Append(ulp.passes, <<"factorial", roundMode>>)]
    /\ UNCHANGED roundMode
    /\ RoundFrame

\* the first loop is over: fesetround(FE_UPWARD)
ULPSwitch ==
    /\ ulp.pc = "factorials"
    /\ ulp.i >= ulp.dim
    /\ ulp' = [ulp EXCEPT !.pc = "products", !.i = 0]
    /\ roundMode' = fesetround(roundMode, "FE_UPWARD")
    /\ RoundFrame

\* res += conf[i] * logProbs[i], in the mode in force
ULPProduct ==
    /\ ulp.pc = "products"
    /\ ulp.i < ulp.dim
    /\ ulp' = [ulp EXCEPT !.res = ulp.res + ulp.conf[ulp.i + 1] * ulp.logProbs[ulp.i + 1],
                           !.i = ulp.i + 1,
                           !.passes = Append(ulp.passes, <<"product", roundMode>>)]
    /\ UNCHANGED roundMode
    /\ RoundFrame

\* the second loop is over: fesetround(curr_method); return res
ULPReturn ==
    /\ ulp.pc = "products"
    /\ ulp.i >= ulp.dim
    /\ ulp' = [ulp EXCEPT !.pc = "returned"]
    /\ roundMode' = fesetround(roundMode, ulp.curr_method)
    /\ RoundFrame

NextRound ==
    \/ ULPEnter
    \/ ULPFactorial
    \/ ULPSwitch
    \/ ULPProduct
    \/ ULPReturn

SpecRound == InitRound /\ [][NextRound]_vars

(***************************************************************************)
(* Reference quantities for the properties.                                *)
(***************************************************************************)
\* the base driver after n advance calls from construction
RECURSIVE BaseRun(_, _)
BaseRun(cx, n) == IF n = 0 THEN Construct(cx) ELSE BaseAdvance(cx, BaseRun(cx, n - 1))

\* the number of calls of the base driver that return true before the first false
RECURSIVE BaseCountFrom(_, _, _)
BaseCountFrom(cx, g, n) ==
    LET h == BaseAdvance(cx, g)
    IN  IF h.ret THEN BaseCountFrom(cx, h, n + 1) ELSE n

\* every joint configuration of the molecule: one marginal configuration per slot
JointConfs(m) ==
    {jc \in [DOMAIN m -> UNION {AllConfs(m[d].n, Len(IsoMasses(m[d].kind))) : d \in DOMAIN m}] :
        \A d \in DOMAIN m : jc[d] \in AllConfs(m[d].n, Len(IsoMasses(m[d].kind)))}

JointLProb(m, jc) == SumFn([d \in DOMAIN m |-> MarginalLProb(m[d], jc[d])], DimOf(m) - 1)

JointMass(m, jc) == SumFn([d \in DOMAIN m |-> MarginalMass(m[d], jc[d])], DimOf(m) - 1)

RECURSIVE ProdFn(_, _)
ProdFn(f, hi) == IF hi < 0 THEN 1 ELSE ProdFn(f, hi - 1) * f[hi]

JointEProb(m, jc) ==
    ProdFn([d \in DOMAIN m |-> ExpOf(MarginalLProb(m[d], jc[d]))], DimOf(m) - 1)

\* the index tuple the driver stands on after a successful advance
CurrentIndex == IF variant = "ordered" THEN emitted[Len(emitted)] ELSE counter

\* every tuple of marginal indices of the ordered driver's molecule
AllTuples ==
    {t \in [0..(dimNumber - 1) ->
                UNION {0..(marginalResults[d].no_confs - 1) : d \in 0..(dimNumber - 1)}] :
        \A d \in 0..(dimNumber - 1) : t[d] < marginalResults[d].no_confs}

IndexLProb(t) == SumFn([d \in 0..(dimNumber - 1) |-> marginalResults[d].lProbs[t[d]]],
                       dimNumber - 1)

CountersInRange(cnt) == \A d \in 0..(dimNumber - 1) : inRange(Cx, d, cnt[d])

\* the joint configuration a counter vector stands for, if it stands for one
ConfAt(cnt) ==
    IF CountersInRange(cnt)
    THEN [d \in 0..(dimNumber - 1) |-> marginalResults[d].confs[cnt[d]]]
    ELSE <<"no configuration", cnt>>

EmittedConfs == {ConfAt(emitted[i]) : i \in 1..Len(emitted)}

\* the index tuples the base driver emits from g on until it returns false,
\* in the order of emission
RECURSIVE BaseEmitted(_, _, _)
BaseEmitted(cx, g, acc) ==
    LET h == BaseAdvance(cx, g)
    IN  IF h.ret THEN BaseEmitted(cx, h, Append(acc, h.counter)) ELSE acc

\* two sequences hold the same elements
SameElements(s, t) ==
    /\ \A i \in 1..Len(s) : \E j \in 1..Len(t) : s[i] = t[j]
    /\ \A j \in 1..Len(t) : \E i \in 1..Len(s) : s[i] = t[j]

\* the joint configurations of log-probability >= l
AtOrAbove(l) == {jc \in JointConfs(mol) : JointLProb(mol, jc) >= l}

\* the sweep of the current slab is over: the layer is complete
SlabComplete == variant = "layered" /\ (pcL = "grow" \/ (calls > 0 /\ ~ret /\ pcL = "idle"))

\* the call just made was the first to return false, and the client never
\* called terminate_search
FirstFalse == everFalse /\ ~ret /\ ~termCalled /\ Len(emitted) = calls - 1

Threshold == variant \in {"base", "fast", "cntr"}

(***************************************************************************)
(* Properties.                                                             *)
(***************************************************************************)
\* C1: threshold completeness.  When advanceToNextConfiguration first returns
\* false, the configurations emitted since construction are exactly the joint
\* configurations whose summed log-probability is >= Lcutoff.
C1_ThresholdComplete ==
    (Threshold /\ FirstFalse) =>
        EmittedConfs = {jc \in JointConfs(mol) : JointLProb(mol, jc) >= Lcutoff}

\* C2: threshold bound.  After every advanceToNextConfiguration that returned
\* true, on the hot path or through an accepted carry, lprob() >= Lcutoff.
C2_ThresholdBound ==
    (Threshold /\ current) => partialLProbs[0] >= Lcutoff

\* C2 witness: the Fast driver has just accepted a carry at a higher dimension
C2_Witness ==
    /\ variant = "fast"
    /\ current
    /\ late = 0
    /\ dimNumber >= 2
    /\ counter[0] = 0
    /\ \E d \in 1..(dimNumber - 1) : counter[d] > 0

\* C3: the Fast driver is functionally identical to the base driver: the
\* n-th call returns the same boolean, and after a call that returned true
\* the counters, lprob(), mass() and eprob() are those of the base driver.
C3_FastMatchesBase ==
    (variant = "fast" /\ ~termCalled /\ calls > 0) =>
        LET b == BaseRun(Cx, calls)
        IN  /\ ret = b.ret
            /\ ret => /\ counter = b.counter
                      /\ partialLProbs[0] = b.partialLProbs[0]
                      /\ partialMasses[0] = b.partialMasses[0]
                      /\ partialExpProbs[0] = b.partialExpProbs[0]

\* C4: count invariance.  The number of calls that return true before the
\* first false is the same for the base, the Fast and the Cntr driver.
C4_CountInvariance ==
    (Threshold /\ FirstFalse) => Len(emitted) = BaseCountFrom(Cx, Construct(Cx), 0)

\* C5: after a successful advance, get_conf_signature fills the buffer with
\* allDim integers, block d being the isotope counts of marginal d's
\* configuration at the driver's current index for d, whose entries sum to
\* the atom count of slot d.
C5_ConfSignature ==
    (current /\ space # <<>>) =>
        /\ CountersInRange(CurrentIndex)
        /\ Len(space) = AllDim(mol)
        /\ space = Concat(ConfAt(CurrentIndex), dimNumber - 1)
        /\ \A d \in 0..(dimNumber - 1) :
              SumTo(ConfAt(CurrentIndex)[d], Len(IsoMasses(mol[d].kind))) = mol[d].n

\* C6: conf-to-mass consistency.  After every advance that returned true,
\* mass(), lprob() and eprob() are the sum, sum and product of the marginal
\* values of the configuration the counter vector stands for.
C6_ConfToMass ==
    (variant \in {"base", "fast"} /\ current) =>
        /\ CountersInRange(counter)
        /\ partialMasses[0] = JointMass(mol, ConfAt(counter))
        /\ partialLProbs[0] = JointLProb(mol, ConfAt(counter))
        /\ partialExpProbs[0] = JointEProb(mol, ConfAt(counter))

\* C7: exhaustion is terminal.  Once a call has returned false, every later
\* call returns false and emits nothing.
C7_ExhaustedSteady ==
    [][(Threshold /\ everFalse /\ calls' = calls + 1) =>
          (~ret' /\ emitted' = emitted)]_vars

\* C8: after terminate_search, every advanceToNextConfiguration returns false.
C8_TerminateStops ==
    [][(Threshold /\ termCalled /\ calls' = calls + 1) => ~ret']_vars

\* C9: ordered driver monotonicity.  The first emission is the joint mode
\* (every marginal at index 0), the reported log-probability is that of the
\* emitted index tuple, and each emission's log-probability is <= that of the
\* emission before it.
C9_OrderedMonotone ==
    (variant = "ordered" /\ Len(emitted) >= 1) =>
        /\ emitted[1] = [d \in 0..(dimNumber - 1) |-> 0]
        /\ current => currentLProb = IndexLProb(emitted[Len(emitted)])
        /\ \A i \in 1..(Len(emitted) - 1) :
              IndexLProb(emitted[i + 1]) <= IndexLProb(emitted[i])

\* C9 witness: the ordered driver has emitted at least three configurations
\* and has come down from the mode's log-probability
C9_Witness ==
    /\ variant = "ordered"
    /\ current
    /\ Len(emitted) >= 3
    /\ dimNumber >= 2
    /\ currentLProb < IndexLProb(emitted[1])

\* C10: ordered driver uniqueness and exhaustiveness.  No index tuple is
\* emitted twice, and advance returns false only when every index tuple has
\* been emitted (so it returns true iff an unemitted one exists).
C10_OrderedExactlyOnce ==
    (variant = "ordered") =>
        /\ \A i, j \in 1..Len(emitted) : i # j => emitted[i] # emitted[j]
        /\ (calls > 0 /\ ~ret) =>
              {emitted[i] : i \in 1..Len(emitted)} = AllTuples
        /\ (calls > 0 /\ ret) =>
              emitted[Len(emitted)] \in AllTuples

\* C10 witness: a run to exhaustion over a molecule in which a tuple is the
\* forward neighbour of two different predecessors
C10_Witness ==
    /\ variant = "ordered"
    /\ calls > 0
    /\ ~ret
    /\ dimNumber >= 2
    /\ \E i \in 1..Len(emitted) : \A d \in 0..(dimNumber - 1) : emitted[i][d] >= 1

\* C11 as stated: whenever the layered driver has just emitted (its
\* cumulative probability has reached some target for the first time), the
\* set emitted so far is the set of joint configurations of log-probability
\* >= some cutoff.
C11_LayeredEquivalenceAtEveryStop ==
    (variant = "layered" /\ current) =>
        \E jc \in JointConfs(mol) : EmittedConfs = AtOrAbove(JointLProb(mol, jc))

\* C11, amended: whenever the layered driver has completed a slab, the set
\* emitted so far is exactly the set of joint configurations of
\* log-probability >= current_layer_lcutoff, which is the set a threshold
\* driver configured at that cutoff emits; no index tuple was emitted twice,
\* in one layer or in two; current_sum is the sum of the emitted probabilities.
C11_LayeredEquivalence ==
    (variant = "layered") =>
        /\ \A i, j \in 1..Len(emitted) : i # j => emitted[i] # emitted[j]
        /\ current_sum = SumTo([i \in 1..Len(emitted) |-> JointEProb(mol, ConfAt(emitted[i]))],
                               Len(emitted))
        /\ SlabComplete =>
              /\ EmittedConfs = AtOrAbove(current_layer_lcutoff)
              /\ SameElements(emitted, BaseEmitted(Cx, Construct(Cx), <<>>))

\* C11 witness: the third or a later slab is complete, over two dimensions,
\* and the layers have delivered more than the joint modes
C11_Witness ==
    /\ variant = "layered"
    /\ pcL = "grow"
    /\ dimNumber >= 2
    /\ last_layer_lcutoff < JointModeLProb(mol)
    /\ Len(emitted) >= 4
    /\ \E i \in 1..Len(emitted) : \A d \in 0..(dimNumber - 1) : emitted[i][d] >= 1

C12_OwnershipTransfer ==
    /\ genObj.life # "none" => isoObj.disowned
    /\ \A r \in DOMAIN heap : heap[r] # "released twice"
    /\ genObj.life = "alive" => \A r \in GeneratorUses(dimNumber) : heap[r] = "live"
    /\ (isoObj.life = "deleted" /\ genObj.life = "deleted") =>
          \A r \in DOMAIN heap : heap[r] = "released"

\* C12 witness: the order of the test: the generator is built and advanced,
\* the description is deleted first, the generator is advanced again and
\* deleted
C12_Witness ==
    /\ lifeOrder = <<"construct", "delete iso", "delete generator">>
    /\ Len(emitted) >= 2
    /\ dimNumber >= 2

\* C12 witness of the reverse order
C12_WitnessReverse ==
    /\ lifeOrder = <<"construct", "delete generator", "delete iso">>
    /\ Len(emitted) >= 2

\* C13: a threshold generator constructed with a threshold that is not
\* positive, or with a relative threshold above 1, has failed with
\* InvalidThreshold and, when advanced, emits no configuration.
C13_InvalidThreshold ==
    (Threshold /\ InvalidThreshold(threshold) /\ calls > 0) =>
        /\ ctorError = "InvalidThreshold"
        /\ emitted = <<>>

C18_CarryFrame ==
    [][(Threshold /\ calls' = calls + 1) =>
          /\ \A i \in 1..Len(carry') :
                /\ carry'[i].taken => carry'[i].tested
                /\ carry'[i].tested => (carry'[i].taken <=> carry'[i].sum >= Lcutoff)
          /\ (ret' /\ carry' = <<>>) =>
                /\ counter'[0] = counter[0] + 1
                /\ \A d \in 1..(dimNumber - 1) : counter'[d] = counter[d]
          /\ (ret' /\ carry' # <<>>) =>
                LET j == carry'[Len(carry')].idx
                IN  /\ j >= 1
                    /\ carry'[Len(carry')].taken
                    /\ \A d \in 0..(j - 1) : counter'[d] = 0
                    /\ counter'[j] = counter[j] + 1
                    /\ \A d \in (j + 1)..(dimNumber - 1) : counter'[d] = counter[d]
      ]_vars

\* C18 witness: a Fast or Cntr call on its regular walk whose carry was
\* refused at dimension 1 and accepted at dimension 2
C18_Witness ==
    /\ variant \in {"fast", "cntr"}
    /\ current
    /\ late = 0
    /\ Len(carry) = 2
    /\ ~carry[1].taken
    /\ carry[2].taken
    /\ counter[2] >= 1

\* C19 as stated: an advance call of the Cntr driver changes counter and
\* partialLProbs and no other field of the generator.
C19_CntrChangesOnlyCounterAndLProbs ==
    [][(variant = "cntr" /\ calls' = calls + 1) =>
          UNCHANGED <<partialMasses, partialExpProbs, lProbs_ptr, mass_ptr, exp_ptr,
                      dimNumber, marginalResults, Lcutoff, maxConfsLPSum>>]_vars

\* C19: across the advance calls of the Cntr driver partialMasses and
\* partialExpProbs keep the values they had after construction, and the
\* fields that change are counter, partialLProbs and the read position
\* lProbs_ptr, no other.
C19_CntrFrame ==
    [][(variant = "cntr" /\ calls' = calls + 1) =>
          /\ partialMasses' = ConstructFast(Cx).partialMasses
          /\ partialExpProbs' = ConstructFast(Cx).partialExpProbs
          /\ UNCHANGED <<partialMasses, partialExpProbs, mass_ptr, exp_ptr,
                         dimNumber, marginalResults, Lcutoff, maxConfsLPSum>>]_vars

\* C19 witness: the Cntr driver on its regular walk, after a step on the
\* hot path and an accepted carry, standing on a configuration whose mass
\* is not the one the prefix array holds
C19_Witness ==
    /\ variant = "cntr"
    /\ current
    /\ late = 0
    /\ calls >= 3
    /\ carry # <<>>
    /\ CountersInRange(counter)
    /\ partialMasses[0] # JointMass(mol, ConfAt(counter))

\* mass() of the driver: IsoGenerator::mass, overridden by the ordered driver
ReportedMass == IF variant = "ordered" THEN currentMass ELSE partialMasses[0]

\* C16: mass bounds.  After every advance that returned true on a driver
\* that reports masses (base, Fast, ordered, layered), mass() lies between
\* the lightest and the heaviest peak mass of the molecule, inclusive.
C16_MassBounds ==
    (variant \in {"base", "fast", "ordered", "layered"} /\ current) =>
        /\ getLightestPeakMass(mol) <= ReportedMass
        /\ ReportedMass <= getHeaviestPeakMass(mol)

\* the atom count a parse result holds for an element, over all its slots
RECURSIVE CountIn(_, _, _)
CountIn(slots, sym, k) ==
    IF k = 0 THEN 0
    ELSE CountIn(slots, sym, k - 1) + (IF slots[k].sym = sym THEN slots[k].n ELSE 0)

\* the counts the tokens of an element denote, added up
RECURSIVE Occurrences(_, _, _)
Occurrences(tl, sym, k) ==
    IF k = 0 THEN 0
    ELSE Occurrences(tl, sym, k - 1) + (IF tl[k].sym = sym THEN tl[k].written.count ELSE 0)

\* the token lists that hold the tokens of tl in some order
Reordered(tl) ==
    {[i \in 1..Len(tl) |-> tl[p[i]]] :
        p \in {q \in [1..Len(tl) -> 1..Len(tl)] :
                  \A i, j \in 1..Len(tl) : i # j => q[i] # q[j]}}

\* the formula is well formed and names elements of the periodic table only
WellFormed == tokens # <<>> /\ \A k \in 1..Len(tokens) : tokens[k].sym \in PeriodicTable

\* C17: formula parsing.  For a well-formed formula parse_formula yields for
\* each element the sum of the counts of its occurrences, an occurrence
\* without digits counting as 1, in one slot per element; and the counts are
\* the same for the formula with its tokens in any other order.
C17_ParseFormula ==
    (WellFormed /\ parsed # NotParsed) =>
        /\ parsed.error = "none"
        /\ \A sym \in PeriodicTable :
              /\ CountIn(parsed.slots, sym, Len(parsed.slots))
                    = Occurrences(tokens, sym, Len(tokens))
              /\ \A i, j \in 1..Len(parsed.slots) :
                    (parsed.slots[i].sym = sym /\ parsed.slots[j].sym = sym) => i = j
              /\ \A tl \in Reordered(tokens) :
                    LET other == parse_formula(Text(tl, Len(tl)))
                    IN  CountIn(other.slots, sym, Len(other.slots))
                          = CountIn(parsed.slots, sym, Len(parsed.slots))

\* C17 witness: a parsed formula in which an element occurs twice, once
\* without digits, and another element with a two-digit count
C17_Witness ==
    /\ parsed.error = "none"
    /\ Len(tokens) >= 2
    /\ \E i, j \in 1..Len(tokens) :
          /\ i # j
          /\ tokens[i].sym = tokens[j].sym
          /\ tokens[i].written.digits = <<>>
          /\ tokens[j].written.digits # <<>>
    /\ Len(parsed.slots) < Len(tokens)

\* what the workers 1..k have emitted, and the outer indices they were handed
RECURSIVE WorkersEmitted(_)
WorkersEmitted(k) == IF k = 0 THEN <<>> ELSE WorkersEmitted(k - 1) \o workers[k].emitted

RECURSIVE WorkersGot(_)
WorkersGot(k) == IF k = 0 THEN <<>> ELSE WorkersGot(k - 1) \o workers[k].got

NoRepeat(seq) == \A i, j \in 1..Len(seq) : i # j => seq[i] # seq[j]

\* C14: parallel threshold driver.  Under every interleaving of the workers
\* no outer index is handed out twice and no index tuple is emitted twice,
\* by one worker or by two; every emission is one the single-threaded
\* driver makes for the same cutoff, and once every worker's advance has
\* returned false the workers together have emitted all of those.
C14_ParallelThreshold ==
    (variant = "mt") =>
        LET all    == WorkersEmitted(Cardinality(Workers))
            single == BaseEmitted(Cx, Construct(Cx), <<>>)
        IN  /\ NoRepeat(WorkersGot(Cardinality(Workers)))
            /\ NoRepeat(all)
            /\ \A i \in 1..Len(all) : \E j \in 1..Len(single) : all[i] = single[j]
            /\ (\A w \in Workers : workers[w].pc = "done") => SameElements(all, single)

\* C14 witness: both workers have run to the end of a molecule of two or
\* more dimensions, each has emitted, and worker 1 was handed an outer
\* index below and one above an index handed to worker 2
C14_Witness ==
    /\ variant = "mt"
    /\ dimNumber >= 2
    /\ \A w \in Workers : workers[w].pc = "done" /\ workers[w].emitted # <<>>
    /\ \E i, k \in 1..Len(workers[1].got), j \in 1..Len(workers[2].got) :
          workers[1].got[i] < workers[2].got[j] /\ workers[2].got[j] < workers[1].got[k]

\* c comes before d in the order that compares the highest dimension first
RECURSIVE HighestFirstBefore(_, _, _)
HighestFirstBefore(c, d, k) ==
    IF k < 0 THEN FALSE
    ELSE \/ c[k] < d[k]
         \/ c[k] = d[k] /\ HighestFirstBefore(c, d, k - 1)

\* the run from construction up to and including the first false
FirstRun == ~termCalled /\ (~everFalse \/ FirstFalse)

\* C22: no duplicates in the threshold walk.  Within one run of a threshold
\* driver the counter vectors at successive true returns are strictly
\* increasing in the order that compares the highest dimension first, so no
\* counter vector is emitted twice.
C22_StrictlyIncreasing ==
    (Threshold /\ FirstRun) =>
        /\ \A i \in 1..(Len(emitted) - 1) :
              HighestFirstBefore(emitted[i], emitted[i + 1], dimNumber - 1)
        /\ \A i, j \in 1..Len(emitted) : i # j => emitted[i] # emitted[j]

\* C22 witness: a Fast or Cntr run over two or more dimensions has ended
\* after emissions on the hot path and through accepted carries
C22_Witness ==
    /\ variant \in {"fast", "cntr"}
    /\ FirstFalse
    /\ ~termCalled
    /\ dimNumber >= 2
    /\ Len(emitted) >= 3
    /\ \E i \in 1..(Len(emitted) - 1) : emitted[i + 1][0] = emitted[i][0] + 1
    /\ \E i \in 1..(Len(emitted) - 1) : emitted[i + 1][1] = emitted[i][1] + 1

\* the entries of marginal 0 the hot path of the Fast and Cntr drivers read
\* for the emission just made: *lProbs_ptr before its increment, *mass_ptr
\* and *exp_ptr after theirs
HotPathReadsInRange ==
    (variant \in {"fast", "cntr"} /\ carry = <<>>) =>
        /\ inRange(Cx, 0, lProbs_ptr - 1)
        /\ variant = "fast" => (inRange(Cx, 0, mass_ptr) /\ inRange(Cx, 0, exp_ptr))

\* C23: indices stay in range.  After every advanceToNextConfiguration of a
\* threshold driver that returned true, every counter[d] is an index of
\* marginal d's table, and the table entries read for that emission's
\* lprob, mass and eprob lie inside the tables.
C23_IndicesInRange ==
    (Threshold /\ current /\ FirstRun) =>
        /\ CountersInRange(counter)
        /\ HotPathReadsInRange

\* C24: the ordered driver's get_conf_signature is observably read-only.
\* A call leaves the top entry's index tuple, ccount, the priority queue
\* and the current lprob, mass and eprob as they were, and a call after an
\* earlier one since the last advance delivers the same signature.
C24_SignatureReadOnly ==
    [][(variant = "ordered" /\ calls' = calls) =>
          /\ UNCHANGED <<topConf, ccount, pq, visited, currentLProb, currentMass,
                         currentEProb>>
          /\ space # <<>> => space' = space]_vars

\* C24 witness: the ordered driver's signature has been read while the top
\* entry's storage was reused for a queued neighbour, entry ccount stepped
\* back for the copy
C24_Witness ==
    /\ variant = "ordered"
    /\ current
    /\ space # <<>>
    /\ ccount >= 0
    /\ topConf \in pq
    /\ Len(emitted) >= 2

\* C25: a successful advanceToNextConfiguration of the layered driver reads
\* the counter array only at indices 0 <= d < D, for every molecule of
\* D >= 1 element slots.
C25_LayeredCounterReads ==
    (variant = "layered" /\ current) =>
        \A d \in returning.reads : 0 <= d /\ d < dimNumber

\* C21: unnormalized_logProb leaves the rounding mode unchanged.  Whatever
\* mode is in force at the call, the same mode is in force after the
\* return; in between the factorial pass runs in round-toward-zero and the
\* count-times-log-probability pass in round-upward.
C21_RoundingModeRestored ==
    /\ ulp.pc \in {"factorials", "products", "returned"} =>
          \A k \in 1..Len(ulp.passes) :
              ulp.passes[k][2] = (IF ulp.passes[k][1] = "factorial"
                                  THEN "FE_TOWARDZERO" ELSE "FE_UPWARD")
    /\ ulp.pc = "returned" =>
          /\ roundMode = ulp.entry
          /\ Len(ulp.passes) = 2 * ulp.dim
          /\ ulp.res = unnormalized_logProb(ulp.conf, ulp.logProbs, ulp.dim)

\* C21 witness: a call made in a mode that is neither of the two the
\* function switches to has returned, after both passes ran over three
\* isotopes
C21_Witness ==
    /\ ulp.pc = "returned"
    /\ ulp.entry = "FE_DOWNWARD"
    /\ ulp.dim = 3
    /\ roundMode = "FE_DOWNWARD"

=============================================================================
